---- MODULE Spec2Model ----
(***************************************************************************)
(* A model of the veusz document engine: src/document/doc.py (datasets,    *)
(* linked files, the Document) and src/document/commandinterface.py.       *)
(*                                                                         *)
(* Python objects are modelled by value.  A dataset is a record stored in  *)
(* the document's mapping under its name; a linkage object is an entry of  *)
(* the link table and datasets refer to it by its index (0 is None).       *)
(* Arrays are sequences of integers; Python's None is the reserved tuple   *)
(* None, which no array equals.                                            *)
(***************************************************************************)
EXTENDS Integers, Sequences, FiniteSets, TLC

(* ------------------------------------------------------------------ *)
(* Bounds of the model                                                 *)
(* ------------------------------------------------------------------ *)

\* calls made on one document: in the specification of all the calls, of
\* the calls on expression datasets, of the calls on linked datasets and
\* of the calls on the widget tree
MaxSteps == 3
MaxExprSteps == 5
MaxLinkSteps == 5
MaxTreeSteps == 5
\* calls made on one document in the specification of the settings and
\* in the specification of the exports
MaxSettingSteps == 5
MaxExportSteps == 4
\* consecutive reads of one expression dataset that are followed
MaxReads == 2
\* linkage objects alive at one time
MaxLinks == 2
\* widget objects alive at one time, the root among them and the root that
\* a wipe makes while the old tree is still there
MaxWidgets == 4

(* ------------------------------------------------------------------ *)
(* Values                                                              *)
(* ------------------------------------------------------------------ *)

Names == {"xa", "xb"}
NoName == "-"
Parts == {"data", "serr", "nerr", "perr"}

\* Python's None where an array is expected, and a key missing from a dict
None == << -1 >>
Unset == << -2 >>

\* docchangeset = None (the integer changeset never equals it)
NoChangeset == -1

\* the arrays callers pass in
Arrays == {<<1>>, <<2, 3>>}

\* the states the external file of the linkages can be found in
FileStates == {"ok0", "ok1", "malformed", "missing"}

\* what a reader gets out of the file: the malformed file yields a
\* value that failed to convert
FileVals(fs) ==
    CASE fs = "ok0" -> <<1>>
      [] fs = "ok1" -> <<2, 3>>
      [] OTHER -> <<0>>

NoData == [kind |-> "absent"]
NoLink == [type |-> "none", names |-> {}]

LinkIds == 1..MaxLinks

\* formulas of expression datasets: None, or one of the texts
\*   "n"  "n+1"   for a dataset name n
NoExpr == [f |-> "None", n |-> NoName]
Formulas == [f : {"name", "name+1"}, n : Names]
NoExprs == [p \in Parts |-> NoExpr]

(* ------------------------------------------------------------------ *)
(* Dataset, Dataset2D, DatasetExpression                               *)
(* ------------------------------------------------------------------ *)

\* the fields of a dataset object; for an expression dataset the four
\* parts hold self.evaluated[part]
MkDataset(kind, data, serr, nerr, perr, linked, document, expr) ==
    [kind |-> kind, data |-> data, serr |-> serr, nerr |-> nerr,
     perr |-> perr, linked |-> linked, document |-> document,
     expr |-> expr, docchangeset |-> NoChangeset, changeset |-> NoChangeset]

\* numarray's a + b*0. on one-dimensional arrays: the shapes broadcast
Broadcast(e, d) ==
    IF Len(e) = Len(d) THEN [ok |-> TRUE, val |-> e]
    ELSE IF Len(e) = 1 THEN [ok |-> TRUE, val |-> [i \in 1..Len(d) |-> e[1]]]
    ELSE IF Len(d) = 1 THEN [ok |-> TRUE, val |-> e]
    ELSE [ok |-> FALSE, val |-> None]

\* the shape check shared by Dataset.__init__ and Dataset.changeValues
ShapesMatch(data, serr, nerr, perr) ==
    \A e \in {serr, nerr, perr} : e = None \/ Len(e) = Len(data)

\* Dataset.__init__: [exc, ds]
DatasetInit(data, serr, nerr, perr, linked) ==
    IF data = None
    THEN [exc |-> "AttributeError", ds |-> NoData]
    ELSE LET bs == IF serr = None THEN [ok |-> TRUE, val |-> None] ELSE Broadcast(serr, data)
             bn == IF nerr = None THEN [ok |-> TRUE, val |-> None] ELSE Broadcast(nerr, data)
             bp == IF perr = None THEN [ok |-> TRUE, val |-> None] ELSE Broadcast(perr, data)
         IN  IF ~(bs.ok /\ bn.ok /\ bp.ok)
             THEN [exc |-> "ValueError", ds |-> NoData]
             ELSE IF ~ShapesMatch(data, bs.val, bn.val, bp.val)
             THEN [exc |-> "AssertionError", ds |-> NoData]
             ELSE [exc |-> "none",
                   ds |-> MkDataset("1d", data, bs.val, bn.val, bp.val,
                                    linked, FALSE, NoExprs)]

\* Dataset2D.__init__
Dataset2DInit(data) ==
    MkDataset("2d", data, None, None, None, 0, FALSE, NoExprs)

\* DatasetExpression.__init__
DatasetExpressionInit(data, serr, nerr, perr) ==
    MkDataset("expr", Unset, Unset, Unset, Unset, 0, FALSE,
              [p \in Parts |-> CASE p = "data" -> data [] p = "serr" -> serr
                                 [] p = "nerr" -> nerr [] OTHER -> perr])

(* ------------------------------------------------------------------ *)
(* The state                                                           *)
(* ------------------------------------------------------------------ *)

VARIABLES
    data,        \* Document.data: name -> dataset, NoData where absent
    changeset,   \* Document.changeset
    modified,    \* Document.modified
    links,       \* the linkage objects that datasets refer to
    widgets,     \* the widget objects
    basewidget,  \* Document.basewidget: the root of the widget tree
    currentwidget, \* CommandInterface.currentwidget
    files,       \* the files in the directory that figures are exported to
    left,        \* the number of calls still to be made
    last         \* the last call and what it returned or raised

vars == <<data, changeset, modified, links, widgets, basewidget,
          currentwidget, files, left, last>>

\* the document as a value that the methods transform
Doc == [data |-> data, changeset |-> changeset, modified |-> modified]

(* ------------------------------------------------------------------ *)
(* Document: the dataset methods, as functions of the document value   *)
(* ------------------------------------------------------------------ *)

\* setModified that forgets the counter
setModified_FlagOnly(D, ismodified) == [D EXCEPT !.modified = ismodified]

\* the names of the live dataset mapping
Present(d) == {n \in Names : d[n] /= NoData}

\* Document.setModified
setModified(D, ismodified) ==
    [D EXCEPT !.modified = ismodified, !.changeset = D.changeset + 1]

\* Document.setData
setData(D, name, dataset) ==
    setModified([D EXCEPT !.data[name] = [dataset EXCEPT !.document = TRUE]],
                TRUE)

\* a wipe that starts the counter again, as __init__ does
wipe_Reset(D) ==
    [data |-> [n \in Names |-> NoData], changeset |-> 0, modified |-> FALSE]

\* Document.wipe, but for the widget tree
wipe(D) == setModified([D EXCEPT !.data = [n \in Names |-> NoData]], FALSE)

\* Document.__init__
NewDocument ==
    wipe([data |-> [n \in Names |-> NoData], changeset |-> 0, modified |-> FALSE])

\* Document.deleteDataset: [exc, doc]
deleteDataset(D, name) ==
    IF D.data[name] = NoData
    THEN [exc |-> "KeyError", doc |-> D]
    ELSE [exc |-> "none",
          doc |-> setModified([D EXCEPT !.data[name] = NoData], TRUE)]

\* Document.renameDataset: [exc, doc]
renameDataset(D, oldname, newname) ==
    IF D.data[oldname] = NoData
    THEN [exc |-> "KeyError", doc |-> D]
    ELSE LET d == D.data[oldname]
             removed == [D.data EXCEPT ![oldname] = NoData]
         IN  [exc |-> "none",
              doc |-> setModified([D EXCEPT !.data =
                                      [removed EXCEPT ![newname] = d]], TRUE)]

\* Document.unlinkDataset: [exc, doc]
unlinkDataset(D, name) ==
    IF D.data[name] = NoData
    THEN [exc |-> "KeyError", doc |-> D]
    ELSE [exc |-> "none",
          doc |-> setModified([D EXCEPT !.data[name].linked = 0], TRUE)]

\* Dataset.changeValues on the dataset stored under name: [exc, doc].
\* Dataset2D has no such method; the parts of a DatasetExpression are
\* read-only properties.
changeValues(D, name, type, vals) ==
    LET ds == D.data[name] IN
    IF ds.kind = "2d"
    THEN [exc |-> "AttributeError", doc |-> D]
    ELSE IF ds.kind = "expr"
    THEN [exc |-> IF type \in {"vals", "serr", "nerr", "perr"}
                  THEN "AttributeError" ELSE "ValueError",
          doc |-> D]
    ELSE
    LET new == CASE type = "vals" -> [ds EXCEPT !.data = vals]
                 [] type = "serr" -> [ds EXCEPT !.serr = vals]
                 [] type = "nerr" -> [ds EXCEPT !.nerr = vals]
                 [] type = "perr" -> [ds EXCEPT !.perr = vals]
                 [] OTHER -> ds
        stored == [D EXCEPT !.data[name] = new]
    IN  IF type \notin {"vals", "serr", "nerr", "perr"}
        THEN [exc |-> "ValueError", doc |-> D]
        ELSE IF new.data = None
        THEN [exc |-> "AttributeError", doc |-> stored]
        ELSE IF ~ShapesMatch(new.data, new.serr, new.nerr, new.perr)
        THEN [exc |-> "AssertionError", doc |-> stored]
        ELSE IF ~new.document
        THEN [exc |-> "AttributeError", doc |-> stored]
        ELSE [exc |-> "none", doc |-> setModified(stored, TRUE)]

(* ------------------------------------------------------------------ *)
(* DatasetExpression: evaluation                                       *)
(* ------------------------------------------------------------------ *)

\* expr == None or expr == ''
HasExpr(ds) == \E p \in Parts : ds.expr[p] /= NoExpr

\* the datasets put into the environment: ds != self and
\* ds.dimensions == 1
Others(D, self) ==
    {m \in Names \ {self} : D.data[m].kind \in {"1d", "expr"}}

\* Populating the environment reads the part of every other dataset; when
\* another expression dataset has a formula, its own evaluation reads
\* this one back, and the reads nest until the interpreter's recursion
\* limit raises RuntimeError.
Recursing(D, self) ==
    \E m \in Others(D, self) : D.data[m].kind = "expr" /\ HasExpr(D.data[m])

\* getattr(ds, part) of another dataset, outside the recursing case (an
\* expression dataset without formulas evaluates to None)
PartOf(ds, part) ==
    IF ds.kind = "expr" THEN None
    ELSE CASE part = "data" -> ds.data [] part = "serr" -> ds.serr
           [] part = "nerr" -> ds.nerr [] OTHER -> ds.perr

\* the value of a formula in the environment: [exc, val]; v is
\* env[f.n], the part of the dataset named
Calculated(f, v) ==
    IF f.f = "name+1"
    THEN IF v = None
         THEN [exc |-> "DatasetExpressionException", val |-> None]  \* TypeError
         ELSE [exc |-> "none", val |-> [i \in 1..Len(v) |-> v[i] + 1]]
    ELSE [exc |-> "none", val |-> v]

\* the population of env and eval(expr, env) for one part: [exc, val]
EvalPart(D, self, part) ==
    IF Recursing(D, self)
    THEN [exc |-> "RuntimeError", val |-> None]
    ELSE IF D.data[self].expr[part].n \notin Others(D, self)
    THEN [exc |-> "DatasetExpressionException", val |-> None]    \* NameError
    ELSE Calculated(D.data[self].expr[part],
                    PartOf(D.data[D.data[self].expr[part].n], part))

\* what the evaluation of a part leaves in [exc, ev], ev being
\* self.evaluated
Stored(prev, p, r) ==
    IF r.exc /= "none" THEN [prev EXCEPT !.exc = r.exc]
    ELSE [prev EXCEPT !.ev[p] = r.val]

\* one round of the loop over self.expr.iteritems()
EvalStep(D, self, p, prev) ==
    IF prev.exc /= "none" THEN prev
    ELSE IF D.data[self].expr[p] = NoExpr THEN [prev EXCEPT !.ev[p] = None]
    ELSE Stored(prev, p, EvalPart(D, self, p))

\* the loop over self.expr.iteritems(), taken in the order ord:
\* [exc, ev]
EvalParts(D, self, ord, ev) ==
    LET after[i \in 0..Len(ord)] ==
            IF i = 0 THEN [exc |-> "none", ev |-> ev]
            ELSE EvalStep(D, self, ord[i], after[i - 1])
    IN  after[Len(ord)]

\* the check that the evaluated parts have one length
SameLengths(ev) ==
    \A p, q \in Parts :
        (ev[p] /= None /\ ev[q] /= None) => Len(ev[p]) = Len(ev[q])

Evaluated(ds) == [p \in Parts |-> CASE p = "data" -> ds.data [] p = "serr" -> ds.serr
                                    [] p = "nerr" -> ds.nerr [] OTHER -> ds.perr]

WithEvaluated(ds, ev) ==
    [ds EXCEPT !.data = ev["data"], !.serr = ev["serr"],
               !.nerr = ev["nerr"], !.perr = ev["perr"]]

\* the loop of updateValues up to its first formula: the parts without a
\* formula that come before it in ord are set to None
RECURSIVE UpToFirstFormula(_, _, _, _)
UpToFirstFormula(ds, ord, i, ev) ==
    IF i > Len(ord) \/ ds.expr[ord[i]] /= NoExpr THEN ev
    ELSE UpToFirstFormula(ds, ord, i + 1, [ev EXCEPT ![ord[i]] = None])

\* what being read during the population of the environment does to
\* another expression dataset: its _propValues stamps it and its own loop
\* runs up to its first formula (where the nested reads start)
Touched(D, ds, ord) ==
    [WithEvaluated(ds, UpToFirstFormula(ds, ord, 1, Evaluated(ds)))
        EXCEPT !.changeset = D.changeset]

\* the expression datasets that the population of the environment reads
ReadByEnv(D, self) ==
    IF HasExpr(D.data[self])
    THEN {m \in Others(D, self) : D.data[m].kind = "expr"}
    ELSE {}

\* an updateValues without the check of the lengths
Updated_Unchecked(D, self, ord, r) ==
    [exc |-> r.exc,
     doc |-> [D EXCEPT !.data =
                 [m \in Names |->
                     IF m = self THEN WithEvaluated(D.data[self], r.ev)
                     ELSE IF m \in ReadByEnv(D, self) THEN Touched(D, D.data[m], ord)
                     ELSE D.data[m]]]]

\* the document and the exception after the loop has left r = [exc, ev]
Updated(D, self, ord, r) ==
    [exc |-> IF r.exc /= "none" THEN r.exc
             ELSE IF ~SameLengths(r.ev) THEN "DatasetExpressionException"
             ELSE "none",
     doc |-> [D EXCEPT !.data =
                 [m \in Names |->
                     IF m = self THEN WithEvaluated(D.data[self], r.ev)
                     ELSE IF m \in ReadByEnv(D, self) THEN Touched(D, D.data[m], ord)
                     ELSE D.data[m]]]]

\* DatasetExpression.updateValues on the dataset stored under self, its
\* parts taken in the order ord: [exc, doc]
updateValues(D, self, ord) ==
    Updated(D, self, ord, EvalParts(D, self, ord, Evaluated(D.data[self])))

\* the test against the attribute that _propValues does write
NeedsUpdate_Stamped(D, ds) == D.changeset /= ds.changeset

\* the test of _propValues: has the document changed since the last
\* evaluation?
NeedsUpdate(D, ds) == D.changeset /= ds.docchangeset

\* return self.evaluated[name], after updateValues gave u
Returned(self, name, u) ==
    [exc |-> u.exc,
     val |-> IF u.exc = "none" THEN Evaluated(u.doc.data[self])[name] ELSE None,
     evals |-> 1, doc |-> u.doc]

\* return self.evaluated[name], as it is
Cached(D, self, name) ==
    [exc |-> IF Evaluated(D.data[self])[name] = Unset THEN "KeyError" ELSE "none",
     val |-> IF Evaluated(D.data[self])[name] = Unset THEN None
             ELSE Evaluated(D.data[self])[name],
     evals |-> 0, doc |-> D]

\* DatasetExpression._propValues: [exc, val, evals, doc]; evals counts the
\* calls of updateValues
_propValues(D, self, name, ord) ==
    IF NeedsUpdate(D, D.data[self])
    THEN Returned(self, name,
                  updateValues([D EXCEPT !.data[self].changeset = D.changeset],
                               self, ord))
    ELSE Cached(D, self, name)

(* ------------------------------------------------------------------ *)
(* Duplicating a dataset                                               *)
(* ------------------------------------------------------------------ *)

\* the properties data, serr, nerr, perr read one after the other, as
\* the arguments of a call are: [exc, doc, vals] after the last of them or
\* after the first that raises
ArgOrder == <<"data", "serr", "nerr", "perr">>

ReadDone(prev, r) ==
    [exc |-> r.exc, doc |-> r.doc, vals |-> Append(prev.vals, r.val)]

ReadStep(prev, name, part, ord) ==
    IF prev.exc /= "none" THEN prev
    ELSE ReadDone(prev, _propValues(prev.doc, name, part, ord))

ReadParts(D, name, ord) ==
    LET after[i \in 0..Len(ArgOrder)] ==
            IF i = 0 THEN [exc |-> "none", doc |-> D, vals |-> <<>>]
            ELSE ReadStep(after[i - 1], name, ArgOrder[i], ord)
    IN  after[Len(ArgOrder)]

\* the Dataset that duplicate constructs, c being what Dataset.__init__
\* gave
Built(D, c) == [exc |-> c.exc, ds |-> c.ds, doc |-> D]

FromParts(r) ==
    IF r.exc /= "none" THEN [exc |-> r.exc, ds |-> NoData, doc |-> r.doc]
    ELSE Built(r.doc, DatasetInit(r.vals[1], r.vals[2], r.vals[3], r.vals[4], 0))

\* Dataset.duplicate on the dataset stored under name: [exc, ds, doc].
\* A DatasetExpression inherits it and reads its four properties;
\* Dataset2D has no such method.
duplicate(D, name, ord) ==
    IF D.data[name].kind = "2d"
    THEN [exc |-> "AttributeError", ds |-> NoData, doc |-> D]
    ELSE IF D.data[name].kind = "1d"
    THEN Built(D, DatasetInit(D.data[name].data, D.data[name].serr,
                              D.data[name].nerr, D.data[name].perr, 0))
    ELSE FromParts(ReadParts(D, name, ord))

\* self.data[newname] = <the duplicate>; self.setModified()
Installed(newname, c) ==
    IF c.exc /= "none" THEN [exc |-> c.exc, doc |-> c.doc]
    ELSE [exc |-> "none",
          doc |-> setModified([c.doc EXCEPT !.data[newname] = c.ds], TRUE)]

\* duplicateDataset without its test of newname
duplicateDataset_Unchecked(D, name, newname, ord) ==
    IF D.data[name] = NoData
    THEN [exc |-> "KeyError", doc |-> D]
    ELSE Installed(newname, duplicate(D, name, ord))

\* Document.duplicateDataset: [exc, doc]
duplicateDataset(D, name, newname, ord) ==
    IF D.data[newname] /= NoData
    THEN [exc |-> "ValueError", doc |-> D]
    ELSE IF D.data[name] = NoData
    THEN [exc |-> "KeyError", doc |-> D]
    ELSE Installed(newname, duplicate(D, name, ord))

(* ------------------------------------------------------------------ *)
(* Importing from the file                                             *)
(* ------------------------------------------------------------------ *)

\* the linkage objects some dataset refers to
Linked(D) == {D.data[n].linked : n \in {m \in Names : D.data[m] /= NoData}} \ {0}

\* the file read as one-dimensional data (SimpleRead.setInDocument and
\* the table branch of importFITS) and as a grid (SimpleRead2D)
FileDataset(fs, linked) ==
    MkDataset("1d", FileVals(fs), None, None, None, linked, FALSE, NoExprs)

FileDataset2D(fs, linked) ==
    [Dataset2DInit(FileVals(fs)) EXCEPT !.linked = linked]

\* the loop of import2D over the names of datasets, from the i-th on
RECURSIVE import2DFrom(_, _, _, _, _)
import2DFrom(D, datasets, i, lf, fs) ==
    IF i > Len(datasets) THEN D
    ELSE import2DFrom(setData(D, datasets[i], FileDataset2D(fs, lf)),
                      datasets, i + 1, lf, fs)

\* Document.import2D; lf is the Linked2DFile made for linked=True, else 0:
\* [exc, doc]
import2D(D, datasets, lf, fs) ==
    IF fs = "missing" THEN [exc |-> "IOError", doc |-> D]
    ELSE IF fs = "malformed" THEN [exc |-> "Read2DError", doc |-> D]
    ELSE [exc |-> "none", doc |-> import2DFrom(D, datasets, 1, lf, fs)]

\* Document.importFITS of a table HDU with a data column; lf is the
\* LinkedFITSFile made for linked=True, else 0: [exc, doc]
importFITS(D, dsname, lf, fs) ==
    IF fs \in {"missing", "malformed"} THEN [exc |-> "IOError", doc |-> D]
    ELSE [exc |-> "none", doc |-> setData(D, dsname, FileDataset(fs, lf))]

(* ------------------------------------------------------------------ *)
(* Reloading the linked datasets                                       *)
(* ------------------------------------------------------------------ *)

\* the order of Python's string comparison on the names and their letters
SortOrder == <<"a", "b", "x", "xa", "xb">>
Rank(s) == CHOOSE i \in 1..Len(SortOrder) : SortOrder[i] = s

\* the characters of a name (what list += str appends)
Chars(n) == IF n = "xa" THEN <<"x", "a">> ELSE <<"x", "b">>

\* list.sort()
RECURSIVE Sorted(_)
Sorted(q) ==
    IF q = <<>> THEN <<>>
    ELSE LET i == CHOOSE k \in 1..Len(q) :
                      \A j \in 1..Len(q) : Rank(q[k]) <= Rank(q[j])
         IN  <<q[i]>> \o Sorted([j \in 1..(Len(q) - 1) |->
                                    IF j < i THEN q[j] ELSE q[j + 1]])

\* a set of names as a list
RECURSIVE ListOf(_)
ListOf(S) ==
    IF S = {} THEN <<>>
    ELSE LET n == CHOOSE m \in S : \A k \in S : Rank(m) <= Rank(k)
         IN  <<n>> \o ListOf(S \ {n})

\* dict.update on dicts held as sets of <<key, value>>
Update(e, n) == {p \in e : \A q \in n : q[1] /= p[1]} \cup n

\* the names of the scratch document's datasets that are moved into the
\* live document: present there and linked to this linkage
LinkedToUs(D, produced, l) ==
    {n \in produced : D.data[n] /= NoData /\ D.data[n].linked = l}

\* SimpleRead(descriptor).readData and setInDocument(tempdoc,
\* linkedfile=self): the datasets of a scratch document
SimpleRead(descriptor, l, fs) ==
    [n \in Names |-> IF n \in descriptor THEN FileDataset(fs, l) ELSE NoData]

\* LinkedFile.reloadLinks: [exc, doc, read, errors]
LinkedFile_reloadLinks(D, l, L, fs) ==
    IF fs = "missing"
    THEN [exc |-> "IOError", doc |-> D, read |-> <<>>, errors |-> {}]
    ELSE LET tempdoc == SimpleRead(L.names, l, fs)
             produced == {n \in Names : tempdoc[n] /= NoData}
             moved == LinkedToUs(D, produced, l)
             new == [n \in Names |->
                        IF n \in moved THEN [tempdoc[n] EXCEPT !.document = TRUE]
                        ELSE D.data[n]]
             bad == IF fs = "malformed" THEN 1 ELSE 0
         IN  [exc |-> "none",
              doc |-> setModified([D EXCEPT !.data = new], TRUE),
              read |-> ListOf(moved),
              errors |-> {<<n, bad>> : n \in L.names}]

\* Linked2DFile.reloadLinks: [exc, doc, read, errors]
Linked2DFile_reloadLinks(D, l, L, fs) ==
    LET tempdoc == import2D(NewDocument, ListOf(L.names), 0, fs) IN
    IF tempdoc.exc = "Read2DError"
    THEN [exc |-> "none", doc |-> D, read |-> <<>>,
          errors |-> {<<n, 1>> : n \in L.names}]
    ELSE IF tempdoc.exc /= "none"
    THEN [exc |-> tempdoc.exc, doc |-> D, read |-> <<>>, errors |-> {}]
    ELSE LET produced == {n \in Names : tempdoc.doc.data[n] /= NoData}
             moved == LinkedToUs(D, produced, l)
             new == [n \in Names |->
                        IF n \in moved
                        THEN [tempdoc.doc.data[n] EXCEPT !.linked = l,
                                                         !.document = TRUE]
                        ELSE D.data[n]]
         IN  [exc |-> "none",
              doc |-> setModified([D EXCEPT !.data = new], TRUE),
              read |-> ListOf(moved),
              errors |-> {<<n, 0>> : n \in moved}]

\* LinkedFITSFile.reloadLinks: [exc, doc, read, errors]; what it returns
\* as the list of names is the one name, a string
LinkedFITSFile_reloadLinks(D, l, L, fs) ==
    LET dsname == CHOOSE n \in L.names : TRUE
        r == importFITS(D, dsname, 0, fs)
    IN  [exc |-> r.exc, doc |-> r.doc,
         read |-> IF r.exc = "none" THEN Chars(dsname) ELSE <<>>,
         errors |-> IF r.exc = "none" THEN {<<dsname, 0>>} ELSE {}]

\* l.reloadLinks(document) by the class of the linkage object
reloadLinks(D, l, L, fs) ==
    CASE L.type = "file" -> LinkedFile_reloadLinks(D, l, L, fs)
      [] L.type = "2d"   -> Linked2DFile_reloadLinks(D, l, L, fs)
      [] OTHER           -> LinkedFITSFile_reloadLinks(D, l, L, fs)

\* the loop of reloadLinkedDatasets over links.iterkeys(), taken in the
\* order given, from its i-th key on: [exc, doc, read, errors, calls]
RECURSIVE ReloadFrom(_, _, _, _, _, _, _)
ReloadFrom(D, lnk, order, i, fs, read, errors) ==
    IF i > Len(order)
    THEN [exc |-> "none", doc |-> D, read |-> read, errors |-> errors,
          calls |-> Len(order)]
    ELSE LET r == reloadLinks(D, order[i], lnk[order[i]], fs) IN
         IF r.exc /= "none"
         THEN [exc |-> r.exc, doc |-> r.doc, read |-> read,
               errors |-> errors, calls |-> i]
         ELSE ReloadFrom(r.doc, lnk, order, i + 1, fs,
                         read \o r.read, Update(errors, r.errors))

\* Document.reloadLinkedDatasets: [exc, doc, read, errors, calls]
reloadLinkedDatasets(D, lnk, order, fs) ==
    IF order = <<>>
    THEN [exc |-> "none", doc |-> D, read |-> <<>>, errors |-> {}, calls |-> 0]
    ELSE LET r == ReloadFrom(D, lnk, order, 1, fs, <<>>, {}) IN
         IF r.exc /= "none" THEN r
         ELSE [r EXCEPT !.doc = setModified(r.doc, TRUE),
                        !.read = Sorted(r.read)]

(* ------------------------------------------------------------------ *)
(* Saving the document                                                 *)
(* ------------------------------------------------------------------ *)

\* a statement of the saved script: the function called, the linkage
\* object written (0 for none), the names it reads or the name it sets,
\* the columns or formulas it carries and its linked= keyword
Statement(stmt, link, names, vals, linked) ==
    [stmt |-> stmt, link |-> link, names |-> names, vals |-> vals,
     linked |-> linked]

\* LinkedFile.saveToFile, Linked2DFile.saveToFile and
\* LinkedFITSFile.saveToFile
LinkStatement(l, L) ==
    Statement(CASE L.type = "file" -> "ImportFile"
                [] L.type = "2d"   -> "ImportFile2D"
                [] OTHER           -> "ImportFITSFile",
              l, L.names, <<>>, TRUE)

\* the test of saveLinksToSavedDoc that never writes a link twice left out
saveLinksToSavedDoc_Always(D, order, i) == D.data[order[i]].linked /= 0

\* DatasetBase.saveLinksToSavedDoc on the i-th dataset of the loop: is
\* the link written?
saveLinksToSavedDoc(D, order, i) ==
    /\ D.data[order[i]].linked /= 0
    /\ \A j \in 1..(i - 1) : D.data[order[j]].linked /= D.data[order[i]].linked

\* the first loop of Document.saveToFile over self.data.items()
SavedLinks(D, lnk, order) ==
    LET after[i \in 0..Len(order)] ==
            IF i = 0 THEN <<>>
            ELSE IF saveLinksToSavedDoc(D, order, i)
            THEN Append(after[i - 1],
                        LinkStatement(D.data[order[i]].linked,
                                      lnk[D.data[order[i]].linked]))
            ELSE after[i - 1]
    IN  after[Len(order)]

\* the first n elements of a column
Head_n(q, n) == [i \in 1..n |-> q[i]]

\* the rows itertools.izip makes of the columns that are there: as many
\* as the shortest column has
Rows(ds) ==
    LET cols == {c \in {ds.data, ds.serr, ds.perr, ds.nerr} : c /= None}
        n == CHOOSE k \in {Len(c) : c \in cols} :
                 \A c \in cols : k <= Len(c)
    IN  [p \in Parts |-> IF Evaluated(ds)[p] = None THEN None
                         ELSE Head_n(Evaluated(ds)[p], n)]

\* Dataset.saveToFile: [exc, out]
Dataset_saveToFile(ds, name) ==
    IF ds.linked /= 0 THEN [exc |-> "none", out |-> <<>>]
    ELSE IF ds.data = None
    THEN [exc |-> "TypeError", out |-> <<>>]
    ELSE [exc |-> "none",
          out |-> <<Statement("ImportString", 0, {name}, Rows(ds), FALSE)>>]

\* Dataset2D.saveToFile: [exc, out]
Dataset2D_saveToFile(ds, name) ==
    IF ds.linked /= 0 THEN [exc |-> "none", out |-> <<>>]
    ELSE [exc |-> "none",
          out |-> <<Statement("ImportString2D", 0, {name},
                              [p \in Parts |-> IF p = "data" THEN ds.data ELSE None],
                              FALSE)>>]

\* DatasetExpression.saveToFile: [exc, out]
DatasetExpression_saveToFile(ds, name) ==
    [exc |-> "none",
     out |-> <<Statement("SetDataExpression", 0, {name}, ds.expr, TRUE)>>]

\* dataset.saveToFile(file, name) by the class of the dataset
dataset_saveToFile(ds, name) ==
    CASE ds.kind = "1d" -> Dataset_saveToFile(ds, name)
      [] ds.kind = "2d" -> Dataset2D_saveToFile(ds, name)
      [] OTHER          -> DatasetExpression_saveToFile(ds, name)

\* what one dataset adds to [exc, out]
Written(prev, r) == [exc |-> r.exc, out |-> prev.out \o r.out]

\* the second loop of Document.saveToFile, after the links: [exc, out]
SavedDatasets(D, order, links_out) ==
    LET after[i \in 0..Len(order)] ==
            IF i = 0 THEN [exc |-> "none", out |-> links_out]
            ELSE IF after[i - 1].exc /= "none" THEN after[i - 1]
            ELSE Written(after[i - 1],
                         dataset_saveToFile(D.data[order[i]], order[i]))
    IN  after[Len(order)]

\* self.basewidget.getSaveText() as one statement
TreeText == Statement("tree", 0, {}, <<>>, FALSE)

\* an end of saveToFile that leaves the modified flag as it is
Saved_KeepsFlag(D, r) ==
    IF r.exc /= "none" THEN [exc |-> r.exc, doc |-> D, out |-> r.out]
    ELSE [exc |-> "none", doc |-> setModified(D, D.modified),
          out |-> Append(r.out, TreeText)]

\* the end of saveToFile, r being what the loops wrote: [exc, doc, out]
Saved(D, r) ==
    IF r.exc /= "none" THEN [exc |-> r.exc, doc |-> D, out |-> r.out]
    ELSE [exc |-> "none", doc |-> setModified(D, FALSE),
          out |-> Append(r.out, TreeText)]

\* a saveToFile that writes the datasets before the links
saveToFile_DataFirst(D, lnk, order) ==
    Saved(D, [exc |-> SavedDatasets(D, order, <<>>).exc,
              out |-> SavedDatasets(D, order, <<>>).out
                      \o SavedLinks(D, lnk, order)])

\* Document.saveToFile, self.data.items() giving the names in the order
\* given: [exc, doc, out]
saveToFile(D, lnk, order) ==
    Saved(D, SavedDatasets(D, order, SavedLinks(D, lnk, order)))

(* ------------------------------------------------------------------ *)
(* Replaying a saved script through the command interface              *)
(* ------------------------------------------------------------------ *)

\* the functions of the script that CommandInterface has
Commands == {"ImportString", "ImportFile", "tree"}

\* CommandInterface.ImportString: the descriptor's dataset is set in the
\* document from the columns of the string: [exc, doc]
ImportString(D, st) ==
    [exc |-> "none",
     doc |-> setData(D, CHOOSE n \in st.names : TRUE,
                     MkDataset("1d", st.vals["data"], st.vals["serr"],
                               st.vals["nerr"], st.vals["perr"], 0, FALSE,
                               NoExprs))]

\* one statement of the script called on the command interface:
\* [exc, doc]
Called(D, st) ==
    IF st.stmt \notin Commands THEN [exc |-> "NameError", doc |-> D]
    ELSE IF st.stmt = "ImportFile" /\ st.linked
    THEN [exc |-> "TypeError", doc |-> D]      \* no keyword linked
    ELSE IF st.stmt = "ImportString" THEN ImportString(D, st)
    ELSE [exc |-> "none", doc |-> D]

\* the statements run from the top against a fresh document, up to the
\* first that raises: [exc, doc]
Replay(out) ==
    LET after[i \in 0..Len(out)] ==
            IF i = 0 THEN [exc |-> "none", doc |-> NewDocument]
            ELSE IF after[i - 1].exc /= "none" THEN after[i - 1]
            ELSE Called(after[i - 1].doc, out[i])
    IN  after[Len(out)]

(* ------------------------------------------------------------------ *)
(* The widget tree and its paths                                       *)
(* ------------------------------------------------------------------ *)

\* Strings that are taken apart (paths, widget names) are sequences of
\* characters.
WidgetIds == 1..MaxWidgets
NoWidget == [typename |-> "none"]
WidgetNames == {<<"a">>, <<"b">>}
WidgetTypes == {"page", "graph"}

\* the paths callers pass in:  (empty)  /  .  ..  a  b  /a/b  a/../b/
Paths == {<<>>, <<"/">>, <<".">>, <<".", ".">>, <<"a">>, <<"b">>,
          <<"/", "a", "/", "b">>,
          <<"a", "/", ".", ".", "/", "b", "/">>}

\* widgets.Root(None, document=self) and what makeWidget constructs
MkWidget(typename, name, parent) ==
    [typename |-> typename, name |-> name, parent |-> parent,
     children |-> <<>>, val |-> 0]

\* where.split('/'), from the i-th character on, cur being the part
\* collected so far
RECURSIVE SplitFrom(_, _, _)
SplitFrom(where, i, cur) ==
    IF i > Len(where) THEN <<cur>>
    ELSE IF where[i] = "/" THEN <<cur>> \o SplitFrom(where, i + 1, <<>>)
    ELSE SplitFrom(where, i + 1, Append(cur, where[i]))

split(where) == SplitFrom(where, 1, <<>>)

\* Widget.getChild: the child of that name, 0 for None
getChild(W, obj, name) ==
    LET found == {i \in 1..Len(W[obj].children) :
                     W[W[obj].children[i]].name = name}
    IN  IF found = {} THEN 0
        ELSE W[obj].children[CHOOSE i \in found : \A j \in found : i <= j]

\* the messages of the two errors of path resolution: the ValueError of
\* a missing child names the segment
NoMsg == <<>>
NoParentMsg == <<"Base graph has no parent">>
NoChildMsg(p) == <<"Child does not exist">> \o p

\* the loop over the parts of a path, from the i-th on: [exc, obj, msg]
RECURSIVE Walk(_, _, _, _)
Walk(W, obj, parts, i) ==
    IF i > Len(parts) THEN [exc |-> "none", obj |-> obj, msg |-> NoMsg]
    ELSE LET p == parts[i] IN
         IF p = <<".", ".">>
         THEN IF W[obj].parent = 0
              THEN [exc |-> "ValueError", obj |-> obj, msg |-> NoParentMsg]
              ELSE Walk(W, W[obj].parent, parts, i + 1)
         ELSE IF p = <<".">> \/ Len(p) = 0
         THEN Walk(W, obj, parts, i + 1)
         ELSE IF getChild(W, obj, p) = 0
              THEN [exc |-> "ValueError", obj |-> obj, msg |-> NoChildMsg(p)]
              ELSE Walk(W, getChild(W, obj, p), parts, i + 1)

\* CommandInterface._resolve: [exc, obj, msg]
_resolve(W, base, current, where) ==
    Walk(W, IF Len(where) >= 1 /\ where[1] = "/" THEN base ELSE current,
         split(where), 1)

\* a round of the loop in which '..' at the root stays at the root
resolveStep_RootParent(W, prev, p) ==
    IF prev.exc /= "none" THEN prev
    ELSE IF p = <<".", ".">>
    THEN IF W[prev.obj].parent = 0 THEN prev
         ELSE [prev EXCEPT !.obj = W[prev.obj].parent]
    ELSE IF p = <<".">> \/ Len(p) = 0 THEN prev
    ELSE IF getChild(W, prev.obj, p) = 0
    THEN [prev EXCEPT !.exc = "ValueError", !.msg = NoChildMsg(p)]
    ELSE [prev EXCEPT !.obj = getChild(W, prev.obj, p)]

\* one round of the loop of Document.resolve over the parts
resolveStep(W, prev, p) ==
    IF prev.exc /= "none" THEN prev
    ELSE IF p = <<".", ".">>
    THEN IF W[prev.obj].parent = 0
         THEN [prev EXCEPT !.exc = "ValueError", !.msg = NoParentMsg]
         ELSE [prev EXCEPT !.obj = W[prev.obj].parent]
    ELSE IF p = <<".">> \/ Len(p) = 0 THEN prev
    ELSE IF getChild(W, prev.obj, p) = 0
    THEN [prev EXCEPT !.exc = "ValueError", !.msg = NoChildMsg(p)]
    ELSE [prev EXCEPT !.obj = getChild(W, prev.obj, p)]

\* a resolve that takes every path from the widget given
resolve_Relative(W, base, fromwidget, where) ==
    LET after[i \in 0..Len(split(where))] ==
            IF i = 0
            THEN [exc |-> "none", obj |-> fromwidget, msg |-> NoMsg]
            ELSE resolveStep(W, after[i - 1], split(where)[i])
    IN  after[Len(split(where))]

\* Document.resolve: [exc, obj, msg]
resolve(W, base, fromwidget, where) ==
    LET after[i \in 0..Len(split(where))] ==
            IF i = 0
            THEN [exc |-> "none",
                  obj |-> IF Head_n(where, IF Len(where) = 0 THEN 0 ELSE 1) = <<"/">>
                          THEN base ELSE fromwidget,
                  msg |-> NoMsg]
            ELSE resolveStep(W, after[i - 1], split(where)[i])
    IN  after[Len(split(where))]

\* the widget objects that the document or the command interface can
\* still get to, through parents and children
RECURSIVE Reach(_, _)
Reach(W, S) ==
    LET more == S \cup {W[w].parent : w \in S} \cup
                UNION {{W[w].children[i] : i \in 1..Len(W[w].children)} : w \in S}
        T == more \ {0}
    IN  IF T = S THEN S ELSE Reach(W, T)

Kept(W, base, current) ==
    [w \in WidgetIds |-> IF w \in Reach(W, {base, current}) THEN W[w] ELSE NoWidget]

FreeWidgets(W) == {w \in WidgetIds : W[w] = NoWidget}
FreshWidget(W) == CHOOSE w \in FreeWidgets(W) : \A k \in FreeWidgets(W) : w <= k

(* ------------------------------------------------------------------ *)
(* Propagating a setting                                               *)
(* ------------------------------------------------------------------ *)

\* widgetname=None
AnyName == <<"None">>

\* the test of _recursiveGet on a child (typename is never None here)
Matches(w, name, typename) ==
    (w.name = name \/ name = AnyName) /\ w.typename = typename

\* a descent that does not count the levels
RECURSIVE _recursiveGet_Unlimited(_, _, _, _, _)
_recursiveGet_Unlimited(W, root, name, typename, maxlevels) ==
    IF maxlevels = 0 THEN <<>>
    ELSE LET upto[i \in 0..Len(W[root].children)] ==
                 IF i = 0 THEN <<>>
                 ELSE upto[i - 1]
                      \o (IF Matches(W[W[root].children[i]], name, typename)
                          THEN <<W[root].children[i]>> ELSE <<>>)
                      \o _recursiveGet_Unlimited(W, W[root].children[i], name,
                                                 typename, maxlevels)
         IN  upto[Len(W[root].children)]

\* _recursiveGet: what it appends to outlist
RECURSIVE _recursiveGet(_, _, _, _, _)
_recursiveGet(W, root, name, typename, maxlevels) ==
    IF maxlevels = 0 THEN <<>>
    ELSE LET upto[i \in 0..Len(W[root].children)] ==
                 IF i = 0 THEN <<>>
                 ELSE upto[i - 1]
                      \o (IF Matches(W[W[root].children[i]], name, typename)
                          THEN <<W[root].children[i]>> ELSE <<>>)
                      \o _recursiveGet(W, W[root].children[i], name, typename,
                                       maxlevels - 1)
         IN  upto[Len(W[root].children)]

\* the loop over widgetlist: every widget of it gets the value
SetIn(W, widgetlist, val) ==
    [list |-> widgetlist,
     widgets |-> [w \in WidgetIds |->
                     IF \E i \in 1..Len(widgetlist) : widgetlist[i] = w
                     THEN [W[w] EXCEPT !.val = val] ELSE W[w]]]

\* Document.propagateSettings of the setting x of the widget origin; root
\* is 0 for None: [list, widgets]
propagateSettings(W, base, origin, widgetname, root, maxlevels) ==
    SetIn(W,
          _recursiveGet(W, IF root = 0 THEN base ELSE root, widgetname,
                        W[origin].typename, maxlevels),
          W[origin].val)

(* ------------------------------------------------------------------ *)
(* Exporting a page                                                    *)
(* ------------------------------------------------------------------ *)

\* the extensions of the file names given to export, and the names that
\* "tmp_%s.eps" % rndstr can come out as
Extensions == {".eps", ".png", ".txt"}
TmpNames == {"tmp_1.eps", "tmp_2.eps"}

\* the name of the figure written for an extension
Figure(ext) == IF ext = ".eps" THEN "out.eps" ELSE "out.png"

\* Document.printTo(p, [pagenumber]) onto a printer whose output file is
\* name: painter.begin opens the file, and children[p] raises for a page
\* that the root does not have; whether the file is there after that is
\* left open by created: [exc, files]
printTo(F, W, base, pagenumber, name, created) ==
    IF pagenumber >= Len(W[base].children)
    THEN [exc |-> "IndexError", files |-> IF created THEN F \cup {name} ELSE F]
    ELSE [exc |-> "none", files |-> F \cup {name}]

\* the conversion by gs and what follows it, p being what printTo gave
\* and text what gs wrote to stderr: [exc, files, tmp]
Converted(p, tmpfilename, text) ==
    IF p.exc /= "none"
    THEN [exc |-> p.exc, files |-> p.files, tmp |-> tmpfilename]
    ELSE IF text
    THEN [exc |-> "RuntimeError", files |-> p.files \ {tmpfilename},
          tmp |-> tmpfilename]
    ELSE [exc |-> "none",
          files |-> (p.files \ {tmpfilename}) \cup {Figure(".png")},
          tmp |-> tmpfilename]

\* the end of the .eps branch
Printed(p) == [exc |-> p.exc, files |-> p.files, tmp |-> NoName]

\* Document.export into a directory holding the files F (exists tells
\* whether the directory of filename is there), tmpfilename being the
\* name the loop over random names ends with: [exc, files, tmp]
export(F, W, base, ext, exists, pagenumber, tmpfilename, created, text) ==
    IF ext = ".eps"
    THEN IF exists
         THEN Printed(printTo(F, W, base, pagenumber, Figure(ext), created))
         ELSE Printed(printTo(F, W, base, pagenumber, Figure(ext), FALSE))
    ELSE IF ext = ".png"
    THEN IF ~exists
         THEN [exc |-> "RuntimeError", files |-> F, tmp |-> NoName]
         ELSE Converted(printTo(F, W, base, pagenumber, tmpfilename, created),
                        tmpfilename, text)
    ELSE [exc |-> "RuntimeError", files |-> F, tmp |-> NoName]

(* ------------------------------------------------------------------ *)
(* The calls                                                           *)
(* ------------------------------------------------------------------ *)

\* the orders a dict of n keys can be iterated in
Orders(S) ==
    {q \in [1..Cardinality(S) -> S] :
        \A i, j \in 1..Cardinality(S) : i /= j => q[i] /= q[j]}

\* the orders the dict self.expr, filled with the keys data, serr, nerr,
\* perr, is iterated in: CPython 2's (by the hashes of the keys, on 32 and
\* on 64 bits) and the order of insertion
PartOrders == {<<"serr", "nerr", "data", "perr">>,
               <<"data", "serr", "nerr", "perr">>}

\* a linkage object lives as long as a dataset refers to it
Collect(lnk, D) == [l \in LinkIds |-> IF l \in Linked(D) THEN lnk[l] ELSE NoLink]

Free(lnk) == {l \in LinkIds : lnk[l] = NoLink}
Fresh(lnk) == CHOOSE l \in Free(lnk) : \A k \in Free(lnk) : l <= k

\* the record of a call
Last(op, name, arg, exc) ==
    [op |-> op, name |-> name, arg |-> arg, exc |-> exc, val |-> None,
     read |-> <<>>, errors |-> {}, called |-> <<>>, reads |-> 0, evals |-> 0,
     out |-> <<>>, from |-> 0, where |-> <<>>, obj |-> 0, msg |-> NoMsg,
     tmp |-> NoName, widgetlist |-> <<>>, maxlevels |-> 0]

\* the state after a call that left the document as D
Commit(D, lnk, l) ==
    /\ data' = D.data
    /\ changeset' = D.changeset
    /\ modified' = D.modified
    /\ links' = Collect(lnk, D)
    /\ last' = l
    /\ left' = left - 1
    /\ UNCHANGED <<widgets, basewidget, currentwidget, files>>

\* the state after a call on the tree that left the widgets as W
CommitTree(D, W, current, l) ==
    /\ data' = D.data
    /\ changeset' = D.changeset
    /\ modified' = D.modified
    /\ widgets' = Kept(W, basewidget, current)
    /\ currentwidget' = current
    /\ last' = l
    /\ left' = left - 1
    /\ UNCHANGED <<links, basewidget, files>>

\* a document and a command interface just constructed, with n calls to
\* be made on them
Start(n) ==
    /\ data = NewDocument.data
    /\ changeset = NewDocument.changeset
    /\ modified = NewDocument.modified
    /\ links = [l \in LinkIds |-> NoLink]
    /\ widgets = [w \in WidgetIds |->
                     IF w = 1 THEN MkWidget("document", <<>>, 0) ELSE NoWidget]
    /\ basewidget = 1
    /\ currentwidget = 1
    /\ files = {}
    /\ left = n
    /\ last = Last("init", NoName, NoName, "none")

Init == Start(MaxSteps)

\* CommandInterface.SetData
SetData ==
    \E name \in Names, val \in Arrays, symerr \in {None, <<2, 3>>} :
        /\ left > 0
        /\ LET c == DatasetInit(val, symerr, None, None, 0) IN
           IF c.exc /= "none"
           THEN Commit(Doc, links, Last("SetData", name, NoName, c.exc))
           ELSE Commit(setData(Doc, name, c.ds), links,
                       Last("SetData", name, NoName, "none"))

\* Document.setData of a Dataset made with linked=, a LinkedFile that is
\* new (with any descriptor) or one that other datasets have
SetDataLinked ==
    \E name \in Names, val \in {<<1>>} :
        /\ left > 0
        /\ \/ \E l \in LinkIds :
                /\ links[l].type = "file"
                /\ Commit(setData(Doc, name, DatasetInit(val, None, None, None, l).ds),
                          links, Last("setData", name, NoName, "none"))
           \/ \E descriptor \in {{"xa"}, {"xa", "xb"}} :
                /\ Free(links) /= {}
                /\ LET l == Fresh(links) IN
                   Commit(setData(Doc, name, DatasetInit(val, None, None, None, l).ds),
                          [links EXCEPT ![l] = [type |-> "file", names |-> descriptor]],
                          Last("setData", name, NoName, "none"))

\* Document.setData of a DatasetExpression
SetDataExpression ==
    \E name \in Names, fdata \in Formulas :
      \E fserr \in {NoExpr, [f |-> "name", n |-> fdata.n]} :
        /\ left > 0
        /\ Commit(setData(Doc, name,
                          DatasetExpressionInit(fdata, fserr, NoExpr, NoExpr)),
                  links, Last("setData", name, NoName, "none"))

\* Document.import2D
Import2D ==
    \E datasets \in {<<"xa">>, <<"xa", "xb">>}, linked \in BOOLEAN,
       file \in {"ok0"} :
        /\ left > 0
        /\ linked => Free(links) /= {}
        /\ LET l == IF linked THEN Fresh(links) ELSE 0
               lnk == IF linked
                      THEN [links EXCEPT ![l] =
                               [type |-> "2d",
                                names |-> {datasets[i] : i \in 1..Len(datasets)}]]
                      ELSE links
               r == import2D(Doc, datasets, l, file)
           IN  Commit(r.doc, lnk, Last("import2D", datasets[1], file, r.exc))

\* Document.importFITS
ImportFITS ==
    \E dsname \in Names, linked \in BOOLEAN, file \in {"ok0"} :
        /\ left > 0
        /\ linked => Free(links) /= {}
        /\ LET l == IF linked THEN Fresh(links) ELSE 0
               lnk == IF linked
                      THEN [links EXCEPT ![l] = [type |-> "fits", names |-> {dsname}]]
                      ELSE links
               r == importFITS(Doc, dsname, l, file)
           IN  Commit(r.doc, lnk, Last("importFITS", dsname, file, r.exc))

\* Dataset.changeValues on a dataset got from the document
ChangeValues ==
    \E name \in Names, type \in {"vals", "serr", "nerr", "perr", "other"} :
      \E vals \in IF type \in {"vals", "serr"} THEN Arrays \cup {None}
                  ELSE {<<2, 3>>} :
        /\ left > 0
        /\ data[name] /= NoData
        /\ LET r == changeValues(Doc, name, type, vals) IN
           Commit(r.doc, links, Last("changeValues", name, type, r.exc))

\* Document.deleteDataset
DeleteDataset ==
    \E name \in Names :
        /\ left > 0
        /\ LET r == deleteDataset(Doc, name) IN
           Commit(r.doc, links, Last("deleteDataset", name, NoName, r.exc))

\* Document.renameDataset
RenameDataset ==
    \E oldname \in Names, newname \in Names :
        /\ left > 0
        /\ LET r == renameDataset(Doc, oldname, newname) IN
           Commit(r.doc, links, Last("renameDataset", oldname, newname, r.exc))

\* Document.duplicateDataset
DuplicateDataset ==
    \E name \in Names, newname \in Names :
      \E ord \in IF data[name].kind = "expr" THEN PartOrders
                 ELSE {ArgOrder} :
        /\ left > 0
        /\ LET r == duplicateDataset(Doc, name, newname, ord) IN
           Commit(r.doc, links, Last("duplicateDataset", name, newname, r.exc))

\* Document.unlinkDataset
UnlinkDataset ==
    \E name \in Names :
        /\ left > 0
        /\ LET r == unlinkDataset(Doc, name) IN
           Commit(r.doc, links, Last("unlinkDataset", name, NoName, r.exc))

\* Document.reloadLinkedDatasets
ReloadLinkedDatasets ==
    \E order \in Orders(Linked(Doc)), file \in FileStates :
        /\ left > 0
        /\ LET r == reloadLinkedDatasets(Doc, links, order, file) IN
           Commit(r.doc, links,
                  [Last("reloadLinkedDatasets", NoName, file, r.exc) EXCEPT
                      !.read = r.read, !.errors = r.errors,
                      !.called = [i \in 1..r.calls |-> order[i]]])

\* reading a part of an expression dataset (the properties data, serr,
\* nerr, perr)
ReadExpression ==
    \E name \in Names, part \in Parts, ord \in PartOrders :
        /\ left > 0
        /\ data[name].kind = "expr"
        /\ LET again == last.op = "read" /\ last.name = name
               r == _propValues(Doc, name, part, ord)
           IN  /\ again => last.reads < MaxReads
               /\ Commit(r.doc, links,
                         [Last("read", name, part, r.exc) EXCEPT
                             !.val = r.val,
                             !.reads = IF again THEN last.reads + 1 ELSE 1,
                             !.evals = IF again THEN last.evals + r.evals
                                       ELSE r.evals])

\* the state after saveToFile gave r
Filed(r) ==
    Commit(r.doc, links,
           [Last("saveToFile", NoName, NoName, r.exc) EXCEPT !.out = r.out])

\* Document.saveToFile
SaveToFile ==
    \E order \in Orders(Present(data)) :
        /\ left > 0
        /\ Filed(saveToFile(Doc, links, order))

\* a command interface whose slot does nothing
slotWipedDoc_Stays(W, base, current) ==
    [exc |-> "none", obj |-> current, msg |-> NoMsg]

\* CommandInterface.slotWipedDoc: self.To('/')
slotWipedDoc(W, base, current) == _resolve(W, base, current, <<"/">>)

\* the state after wipe has made the root and sigWiped has moved the
\* command interface to r.obj; the record keeps the name of the widget
\* that the interface was at
Wiped(D, W, root, r) ==
    /\ data' = D.data
    /\ changeset' = D.changeset
    /\ modified' = D.modified
    /\ links' = Collect(links, D)
    /\ basewidget' = root
    /\ currentwidget' = r.obj
    /\ widgets' = Kept(W, root, r.obj)
    /\ last' = [Last("wipe", NoName, NoName, "none") EXCEPT
                   !.from = currentwidget, !.obj = r.obj,
                   !.where = widgets[currentwidget].name]
    /\ left' = left - 1
    /\ UNCHANGED files

\* the widgets with a new Root(None, document=self) as the object root
WithRoot(W, root) == [W EXCEPT ![root] = MkWidget("document", <<>>, 0)]

\* Document.wipe: the new root is a new object, and sigWiped runs
\* CommandInterface.slotWipedDoc
Wipe ==
    /\ left > 0
    /\ FreeWidgets(widgets) /= {}
    /\ Wiped(wipe(Doc), WithRoot(widgets, FreshWidget(widgets)),
             FreshWidget(widgets),
             slotWipedDoc(WithRoot(widgets, FreshWidget(widgets)),
                          FreshWidget(widgets), currentwidget))

\* CommandInterface.Add: widgets.thefactory.makeWidget(type,
\* self.currentwidget, name=...) with a name no sibling has
Add ==
    \E type \in WidgetTypes, name \in WidgetNames :
        /\ left > 0
        /\ Cardinality(FreeWidgets(widgets)) > 1
        /\ getChild(widgets, currentwidget, name) = 0
        /\ LET w == FreshWidget(widgets)
               W == [widgets EXCEPT
                        ![w] = MkWidget(type, name, currentwidget),
                        ![currentwidget].children = Append(@, w)]
           IN  CommitTree(setModified(Doc, TRUE), W, currentwidget,
                          Last("Add", NoName, type, "none"))

\* Widget.removeChild: the children without the one of that name
removeChild(W, obj, name) ==
    LET c == getChild(W, obj, name)
        keep == {i \in 1..Len(W[obj].children) : W[obj].children[i] /= c}
        nth(k) == CHOOSE i \in keep : Cardinality({j \in keep : j < i}) = k - 1
    IN  [W EXCEPT ![obj].children =
            [k \in 1..Cardinality(keep) |-> W[obj].children[nth(k)]]]

\* CommandInterface.Remove
Remove ==
    \E name \in Paths :
        /\ left > 0
        /\ LET r == _resolve(widgets, basewidget, currentwidget, name) IN
           IF r.exc /= "none"
           THEN CommitTree(Doc, widgets, currentwidget,
                           Last("Remove", NoName, NoName, r.exc))
           ELSE IF widgets[r.obj].parent = 0
           THEN CommitTree(Doc, widgets, currentwidget,
                           Last("Remove", NoName, NoName, "AttributeError"))
           ELSE IF getChild(widgets, widgets[r.obj].parent, widgets[r.obj].name) = 0
           THEN CommitTree(Doc, widgets, currentwidget,
                           Last("Remove", NoName, NoName, "KeyError"))
           ELSE CommitTree(setModified(Doc, TRUE),
                           removeChild(widgets, widgets[r.obj].parent,
                                       widgets[r.obj].name),
                           currentwidget, Last("Remove", NoName, NoName, "none"))

\* the record of a path resolution from the widget given
Resolved(op, fromwidget, where, r) ==
    [Last(op, NoName, NoName, r.exc) EXCEPT
        !.from = fromwidget, !.where = where, !.msg = r.msg,
        !.obj = IF r.exc = "none" THEN r.obj ELSE 0]

\* a To that moves as far as the path could be followed
Moved_Partly(where, r) ==
    CommitTree(Doc, widgets, r.obj, Resolved("To", currentwidget, where, r))

\* the state after To, _resolve having given r
Moved(where, r) ==
    CommitTree(Doc, widgets, IF r.exc = "none" THEN r.obj ELSE currentwidget,
               Resolved("To", currentwidget, where, r))

\* CommandInterface.To
To ==
    \E where \in Paths :
        /\ left > 0
        /\ Moved(where, _resolve(widgets, basewidget, currentwidget, where))

\* the widget objects there are
Live(W) == {w \in WidgetIds : W[w] /= NoWidget}

\* Document.resolve
Resolve ==
    \E fromwidget \in Live(widgets), where \in Paths :
        /\ left > 0
        /\ CommitTree(Doc, widgets, currentwidget,
                      Resolved("resolve", fromwidget, where,
                               resolve(widgets, basewidget, fromwidget, where)))

\* the state after propagateSettings gave r
Propagated(origin, widgetname, root, maxlevels, r) ==
    CommitTree(Doc, r.widgets, currentwidget,
               [Last("propagateSettings", NoName, NoName, "none") EXCEPT
                   !.from = origin, !.where = widgetname, !.obj = root,
                   !.maxlevels = maxlevels, !.widgetlist = r.list])

\* Document.propagateSettings
PropagateSettings ==
    \E origin \in Live(widgets), widgetname \in WidgetNames \cup {AnyName},
       root \in Live(widgets) \cup {0}, maxlevels \in -1..2 :
        /\ left > 0
        /\ Propagated(origin, widgetname,
                      IF root = 0 THEN basewidget ELSE root, maxlevels,
                      propagateSettings(widgets, basewidget, origin, widgetname,
                                        root, maxlevels))

\* CommandInterface.Set: the current widget has the one setting x
Set ==
    \E var \in {"x", "y"}, val \in {0, 1} :
        /\ left > 0
        /\ IF var /= "x"
           THEN CommitTree(Doc, widgets, currentwidget,
                           Last("Set", NoName, var, "KeyError"))
           ELSE CommitTree(setModified(Doc, TRUE),
                           [widgets EXCEPT ![currentwidget].val = val],
                           currentwidget, Last("Set", NoName, var, "none"))

\* the state after export gave r
Exported(ext, exists, r) ==
    /\ files' = r.files
    /\ last' = [Last("export", NoName, ext, r.exc) EXCEPT
                   !.tmp = r.tmp, !.val = IF exists THEN <<1>> ELSE <<0>>]
    /\ left' = left - 1
    /\ UNCHANGED <<data, changeset, modified, links, widgets, basewidget,
                   currentwidget>>

\* Document.export; the loop over the random names ends with a name that
\* os.stat does not find
Export ==
    \E ext \in Extensions, exists \in BOOLEAN, pagenumber \in {0, 1},
       tmpfilename \in TmpNames \ files, created \in BOOLEAN,
       text \in BOOLEAN :
        /\ left > 0
        /\ Exported(ext, exists,
                    export(files, widgets, basewidget, ext, exists, pagenumber,
                           tmpfilename, created, text))

Next ==
    \/ SetData
    \/ SetDataLinked
    \/ SetDataExpression
    \/ Import2D
    \/ ImportFITS
    \/ ChangeValues
    \/ DeleteDataset
    \/ RenameDataset
    \/ DuplicateDataset
    \/ UnlinkDataset
    \/ ReloadLinkedDatasets
    \/ ReadExpression
    \/ SaveToFile
    \/ Wipe
    \/ Add
    \/ Remove
    \/ To
    \/ Set
    \/ Resolve
    \/ Export
    \/ PropagateSettings

Spec == Init /\ [][Next]_vars

\* the calls that expression datasets see
InitExpr == Start(MaxExprSteps)

NextExpr ==
    \/ SetData
    \/ SetDataExpression
    \/ ChangeValues
    \/ DeleteDataset
    \/ RenameDataset
    \/ ReadExpression

SpecExpr == InitExpr /\ [][NextExpr]_vars

\* the calls that make, move and reload linked datasets
InitLink == Start(MaxLinkSteps)

NextLink ==
    \/ SetData
    \/ SetDataLinked
    \/ Import2D
    \/ ImportFITS
    \/ RenameDataset
    \/ UnlinkDataset
    \/ ReloadLinkedDatasets

SpecLink == InitLink /\ [][NextLink]_vars

\* the calls on the widget tree
InitTree == Start(MaxTreeSteps)

NextTree ==
    \/ Add
    \/ Remove
    \/ To
    \/ Set
    \/ Wipe
    \/ Resolve

SpecTree == InitTree /\ [][NextTree]_vars

\* the calls that make widgets, set their setting and propagate it
InitSettings == Start(MaxSettingSteps)

NextSettings ==
    \/ Add
    \/ To
    \/ Set
    \/ PropagateSettings

SpecSettings == InitSettings /\ [][NextSettings]_vars

\* the calls that make pages and export them
InitExport == Start(MaxExportSteps)

NextExport ==
    \/ Add
    \/ Remove
    \/ Export

SpecExport == InitExport /\ [][NextExport]_vars

(* ------------------------------------------------------------------ *)
(* Expression datasets: caching and staleness                          *)
(* ------------------------------------------------------------------ *)

\* C1: when a part of an expression dataset has been read and a part of
\* the same dataset is read again, with no call on the document between
\* the two reads, the second read does not run updateValues.
C1_SecondReadCached ==
    [][(/\ last.op = "read" /\ last.exc = "none"
        /\ last'.op = "read" /\ last'.name = last.name)
       => last'.evals = last.evals]_vars

\* the formula of a part of the expression dataset under name, applied to
\* the values the document holds now
CurrentValue(name, part) ==
    LET f == data[name].expr[part] IN
    IF f = NoExpr THEN None
    ELSE IF data[f.n] = NoData \/ data[f.n].kind = "2d" THEN Unset
    ELSE LET v == IF data[f.n].kind = "expr" THEN None
                  ELSE Evaluated(data[f.n])[part]
         IN  IF f.f = "name+1"
             THEN IF v = None THEN Unset ELSE [i \in 1..Len(v) |-> v[i] + 1]
             ELSE v

C3_ErrorLengths ==
    \A n \in Names :
        (data[n].kind = "1d" /\ data[n].data /= None)
            => ShapesMatch(data[n].data, data[n].serr, data[n].nerr, data[n].perr)

(* ------------------------------------------------------------------ *)
(* Reloading the linked datasets                                       *)
(* ------------------------------------------------------------------ *)

\* C4: reloadLinkedDatasets leaves every dataset that is linked to no
\* linkage object exactly as it was, also when a linked file produces a
\* dataset of its name.
C4_UnlinkedUntouched ==
    [][last'.op = "reloadLinkedDatasets"
       => \A n \in Present(data) : data[n].linked = 0 => data'[n] = data[n]]_vars

\* C5: reloadLinkedDatasets neither adds a name to the live dataset
\* mapping nor removes one from it.
C5_SameNames ==
    [][last'.op = "reloadLinkedDatasets"
       => Present(data') = Present(data)]_vars

\* C6: every linked dataset of the document is, after a
\* reloadLinkedDatasets that returned, still linked to the linkage object
\* it was linked to.
C6_LinkKept ==
    [][(last'.op = "reloadLinkedDatasets" /\ last'.exc = "none")
       => \A n \in Present(data) :
              data[n].linked /= 0
                  => (data'[n] /= NoData /\ data'[n].linked = data[n].linked)]_vars

\* C7: a reloadLinkedDatasets that returned has raised the changeset by
\* exactly one when some dataset was linked, and has left it when none was.
C7_OneBump ==
    [][(last'.op = "reloadLinkedDatasets" /\ last'.exc = "none")
       => changeset' = IF Linked(Doc) = {} THEN changeset ELSE changeset + 1]_vars

(* ------------------------------------------------------------------ *)
(* The changeset counter                                               *)
(* ------------------------------------------------------------------ *)

\* the calls that are one mutation of the datasets each
Mutations == {"SetData", "setData", "deleteDataset", "renameDataset",
              "duplicateDataset", "unlinkDataset", "changeValues"}

\* C8: every setData, deleteDataset, renameDataset, duplicateDataset,
\* unlinkDataset and changeValues that returns has raised the changeset
\* by exactly one and leaves the modified flag true.
C8_OneBumpPerMutation ==
    [][(last'.op \in Mutations /\ last'.exc = "none")
       => (changeset' = changeset + 1 /\ modified')]_vars

\* a changeValues that returned, on the dataset that the one call before
\* it had set
C8_Witness ==
    /\ last.op = "changeValues" /\ last.exc = "none"
    /\ changeset = 3 /\ modified

\* C9: no call on the document or on the command interface lowers the
\* changeset or starts it again.
C9_Monotonic == [][changeset' >= changeset]_vars

\* a wipe as the third call on the document: the counter, 1 after the
\* construction, is 4 and has not started again
C9_Witness ==
    /\ last.op = "wipe"
    /\ changeset = 4
    /\ ~modified

\* C10: duplicateDataset to a name that the mapping has raises the error
\* of the existing name and leaves the mapping, the changeset and the
\* modified flag as they were.
C10_DuplicateToExisting ==
    [][(last'.op = "duplicateDataset" /\ data[last'.arg] /= NoData)
       => /\ last'.exc = "ValueError"
          /\ data' = data
          /\ changeset' = changeset
          /\ modified' = modified]_vars

\* the call has raised with both names in the mapping
C10_Witness ==
    /\ last.op = "duplicateDataset" /\ last.exc = "ValueError"
    /\ last.name /= last.arg
    /\ data[last.name] /= NoData /\ data[last.arg] /= NoData

(* ------------------------------------------------------------------ *)
(* Saving and replaying                                                *)
(* ------------------------------------------------------------------ *)

\* two datasets of the same kind (literal, linked, expression) and values
SameDataset(d, e) ==
    IF d = NoData \/ e = NoData THEN d = e
    ELSE /\ d.kind = e.kind
         /\ (d.linked /= 0) = (e.linked /= 0)
         /\ d.expr = e.expr
         /\ d.kind /= "expr" => Evaluated(d) = Evaluated(e)

\* C11: the script that saveToFile has written, replayed from the top
\* through the command interface against a fresh document, runs to its
\* end and gives datasets of the same names, kinds and values.
C11_RoundTrip ==
    (last.op = "saveToFile" /\ last.exc = "none")
        => /\ Replay(last.out).exc = "none"
           /\ \A n \in Names : SameDataset(Replay(last.out).doc.data[n], data[n])

\* every linked dataset is stored under a name that its linkage object
\* reads from its file
LinkReproduces(d, lnk) ==
    \A n \in Present(d) : d[n].linked /= 0 => n \in lnk[d[n].linked].names

\* C12: when every linked dataset is stored under a name that its
\* linkage object reproduces, this is still so after a renameDataset.
C12_RenameKeepsNames ==
    [][(last'.op = "renameDataset" /\ LinkReproduces(data, links))
       => LinkReproduces(data', links')]_vars

\* the statements of a script that import a linkage object, and those
\* that carry a dataset inline
IsImport(st) == st.link /= 0
IsInline(st) == st.stmt \in {"ImportString", "ImportString2D", "SetDataExpression"}
\* how many statements of a script import the linkage object l, and how
\* many carry the dataset n inline
ImportsOf(out, l) == Cardinality({i \in 1..Len(out) : out[i].link = l})
InlineOf(out, n) ==
    Cardinality({i \in 1..Len(out) : IsInline(out[i]) /\ out[i].names = {n}})

\* C13: the script that saveToFile writes has exactly one import
\* statement for every linkage object that some dataset refers to,
\* however many refer to it, and none for any other.
C13_OneImportPerLink ==
    last.op = "saveToFile"
        => \A l \in LinkIds :
               ImportsOf(last.out, l) = IF l \in Linked(Doc) THEN 1 ELSE 0

\* a script written for a document in which two datasets share a linkage
C13_Witness ==
    /\ last.op = "saveToFile" /\ last.exc = "none"
    /\ \E n, m \in Present(data) :
           n /= m /\ data[n].linked /= 0 /\ data[n].linked = data[m].linked

\* C14: the script that saveToFile writes has its import statements
\* first, then one inline statement for each dataset without a linkage and
\* none for a dataset with one, and the text of the widget tree last.
C14_ScriptOrder ==
    (last.op = "saveToFile" /\ last.exc = "none")
        => /\ \A i, j \in 1..Len(last.out) :
                  (IsImport(last.out[j]) /\ ~IsImport(last.out[i])) => j < i
           /\ \A i \in 1..Len(last.out) :
                  (last.out[i] = TreeText) = (i = Len(last.out))
           /\ \A i \in 1..Len(last.out) :
                  IsImport(last.out[i]) \/ IsInline(last.out[i])
                      \/ last.out[i] = TreeText
           /\ \A n \in Names :
                  InlineOf(last.out, n) =
                      IF n \in Present(data) /\ data[n].linked = 0 THEN 1 ELSE 0

\* a script written for a document with a linked dataset and a dataset
\* without a linkage
C14_Witness ==
    /\ last.op = "saveToFile" /\ last.exc = "none"
    /\ \E n, m \in Present(data) : data[n].linked /= 0 /\ data[m].linked = 0
    /\ Len(last.out) = 3

\* C15: a saveToFile or wipe that returns leaves the modified flag false;
\* a mutation of the datasets that returns (a reloadLinkedDatasets with a
\* linked dataset among them) leaves it true; and the flag goes from true
\* to false in no other call than saveToFile and wipe.
C15_ModifiedFlag ==
    [][/\ (last'.op \in {"saveToFile", "wipe"} /\ last'.exc = "none")
            => ~modified'
       /\ (last'.op \in Mutations /\ last'.exc = "none") => modified'
       /\ (/\ last'.op = "reloadLinkedDatasets" /\ last'.exc = "none"
           /\ Linked(Doc) /= {}) => modified'
       /\ (modified /\ ~modified') => last'.op \in {"saveToFile", "wipe"}]_vars

\* a saveToFile that returned, of a document with a dataset, after two
\* calls that had raised the changeset
C15_Witness ==
    /\ last.op = "saveToFile" /\ last.exc = "none"
    /\ Present(data) /= {}
    /\ ~modified /\ changeset = 4

(* ------------------------------------------------------------------ *)
(* Path resolution                                                     *)
(* ------------------------------------------------------------------ *)

\* two outcomes of a resolution: the same widget, or the same error
SameOutcome(r, q) ==
    /\ r.exc = q.exc /\ r.msg = q.msg
    /\ r.exc = "none" => r.obj = q.obj

\* the outcome that the last call recorded
Recorded == [exc |-> last.exc, obj |-> last.obj, msg |-> last.msg]

\* the laws of cancelling and of segments without effect, for the path p
\* resolved from n with the outcome r
PathLaws(n, p, r) ==
    /\ \A c \in WidgetNames :
           (r.exc = "none" /\ getChild(widgets, r.obj, c) /= 0)
               => SameOutcome(resolve(widgets, basewidget, n,
                                      p \o <<"/">> \o c \o <<"/", ".", ".">>), r)
    /\ SameOutcome(resolve(widgets, basewidget, n, p \o <<"/">>), r)
    /\ SameOutcome(resolve(widgets, basewidget, n, p \o <<"/", "/">>), r)
    /\ SameOutcome(resolve(widgets, basewidget, n, p \o <<"/", ".">>), r)

\* the laws that hold of every path
OriginLaws(n, p, r) ==
    /\ resolve(widgets, basewidget, n, <<".">>).exc = "none"
    /\ resolve(widgets, basewidget, n, <<".">>).obj = n
    /\ (Len(p) > 0 /\ p[1] = "/")
           => \A m \in Live(widgets) :
                  SameOutcome(resolve(widgets, basewidget, m, p), r)

\* C16 as stated: for every node and every path resolved from it, a
\* child segment followed by '..', an empty segment and a '.' segment
\* appended to the path do not change the outcome; '.' resolves to the
\* node; a path that begins with '/' resolves alike from every node.
C16_PathLawsEveryPath ==
    last.op = "resolve"
        => /\ PathLaws(last.from, last.where, Recorded)
           /\ OriginLaws(last.from, last.where, Recorded)

\* C16: the same, for every path that is not the empty string (a
\* segment appended to the empty path makes a path that begins with '/',
\* which is resolved from the root).
C16_PathLaws ==
    last.op = "resolve"
        => /\ last.where /= <<>> => PathLaws(last.from, last.where, Recorded)
           /\ OriginLaws(last.from, last.where, Recorded)

\* a path that is not empty resolved from a widget below the root to a
\* widget with a child, where the cancelling law applies
C16_Witness ==
    /\ last.op = "resolve" /\ last.exc = "none"
    /\ Len(last.where) > 1
    /\ last.from /= basewidget
    /\ widgets[last.obj].children /= <<>>

\* the segments a path is made of
Segments == {<<".", ".">>, <<".">>, <<>>} \cup WidgetNames

\* what following the segment seg from the widget m gives
Followed(m, seg) ==
    IF seg = <<".", ".">>
    THEN IF widgets[m].parent = 0
         THEN [exc |-> "ValueError", obj |-> 0, msg |-> NoParentMsg]
         ELSE [exc |-> "none", obj |-> widgets[m].parent, msg |-> NoMsg]
    ELSE IF seg \in WidgetNames
    THEN IF \E i \in 1..Len(widgets[m].children) :
                widgets[widgets[m].children[i]].name = seg
         THEN [exc |-> "none", obj |-> getChild(widgets, m, seg), msg |-> NoMsg]
         ELSE [exc |-> "ValueError", obj |-> 0, msg |-> NoChildMsg(seg)]
    ELSE [exc |-> "none", obj |-> m, msg |-> NoMsg]

\* C17: a path of one segment fails from a widget exactly when the
\* segment cannot be followed from it ('..' at the root: no parent; a
\* name that no child has: no child of that name); a path that failed
\* still fails with one more segment, and a path that resolved, with one
\* more segment, fails exactly when that segment cannot be followed from
\* the widget reached; a To that failed has left the current widget.
C17_FailsWhenNotFollowed ==
    /\ \A n \in Live(widgets), seg \in Segments :
           SameOutcome(resolve(widgets, basewidget, n, seg), Followed(n, seg))
    /\ (last.op = "resolve" /\ last.where /= <<>>)
           => \A seg \in Segments :
                  SameOutcome(resolve(widgets, basewidget, last.from,
                                      last.where \o <<"/">> \o seg),
                              IF last.exc = "none" THEN Followed(last.obj, seg)
                              ELSE Recorded)
    /\ last.op = "To"
           => currentwidget = IF last.exc = "none" THEN last.obj ELSE last.from

\* a To from a widget below the root that failed on a name no child has
C17_Witness ==
    /\ last.op = "To" /\ last.exc = "ValueError"
    /\ last.msg = NoChildMsg(<<"b">>)
    /\ last.from /= basewidget
    /\ currentwidget = last.from

\* C18: Document.resolve from a widget and CommandInterface._resolve with
\* that widget as the current one give the same outcome for every path:
\* the same widget or the same error.
C18_SameResolution ==
    /\ \A n \in Live(widgets), p \in Paths :
           SameOutcome(resolve(widgets, basewidget, n, p),
                       _resolve(widgets, basewidget, n, p))
    /\ last.op = "resolve"
           => SameOutcome(Recorded, _resolve(widgets, basewidget,
                                             last.from, last.where))
    /\ (last.op = "To" /\ last.from \in Live(widgets))
           => SameOutcome(Recorded, resolve(widgets, basewidget,
                                            last.from, last.where))

\* a resolve of /a/b from a widget below the root
C18_Witness ==
    /\ last.op = "resolve" /\ last.exc = "none"
    /\ last.where = <<"/", "a", "/", "b">>
    /\ last.from /= basewidget

\* C19: after a wipe the document has no datasets, its root is a new
\* widget without children, the modified flag is false and the current
\* widget of the command interface is that root.
C19_WipedIsEmpty ==
    [][last'.op = "wipe"
       => /\ Present(data') = {}
          /\ basewidget' /= basewidget
          /\ widgets'[basewidget'].children = <<>>
          /\ widgets'[basewidget'].parent = 0
          /\ ~modified'
          /\ currentwidget' = basewidget']_vars

\* a wipe made while the command interface was at a widget below the root
C19_Witness ==
    /\ last.op = "wipe"
    /\ last.where \in WidgetNames
    /\ currentwidget = basewidget

(* ------------------------------------------------------------------ *)
(* Errors of a reload                                                  *)
(* ------------------------------------------------------------------ *)

\* C20: reloadLinkedDatasets never raises, whatever state the files of
\* the linkages are in, and calls reloadLinks on every linkage object that
\* a dataset refers to.
C20_ReloadReturns ==
    [][last'.op = "reloadLinkedDatasets"
       => /\ last'.exc = "none"
          /\ Len(last'.called) = Cardinality(Linked(Doc))]_vars

(* ------------------------------------------------------------------ *)
(* The names a reload returns                                          *)
(* ------------------------------------------------------------------ *)

\* C21: the list of names that reloadLinkedDatasets returns holds whole
\* names of datasets of the document, each once and in sorted order,
\* whichever classes the linkage objects are of.
C21_ReadIsNames ==
    (last.op = "reloadLinkedDatasets" /\ last.exc = "none")
        => /\ \A i \in 1..Len(last.read) :
                  last.read[i] \in Present(data)
           /\ \A i, j \in 1..Len(last.read) :
                  i < j => Rank(last.read[i]) < Rank(last.read[j])

(* ------------------------------------------------------------------ *)
(* Unlinking a dataset                                                 *)
(* ------------------------------------------------------------------ *)

\* C22: an unlinkDataset(name) that returned has changed nothing but the
\* link of that dataset; a saveToFile of the document it leaves writes
\* one statement carrying the data of name inline; and a
\* reloadLinkedDatasets that follows it leaves the dataset of that name
\* as it is.
C22_UnlinkOnlyUnlinks ==
    [][/\ (last'.op = "unlinkDataset" /\ last'.exc = "none")
            => /\ data' = [data EXCEPT ![last'.name].linked = 0]
               /\ \A order \in Orders(Present(data')) :
                      InlineOf(saveToFile(Doc', links', order).out,
                               last'.name) = 1
       /\ (last.op = "unlinkDataset" /\ last.exc = "none"
              /\ last'.op = "reloadLinkedDatasets")
            => data'[last.name] = data[last.name]]_vars

(* ------------------------------------------------------------------ *)
(* Expression datasets: the lengths of the evaluated parts             *)
(* ------------------------------------------------------------------ *)

\* the formulas of the four parts of the expression dataset under name,
\* applied to the values the document holds now
CurrentValues(name) == [p \in Parts |-> CurrentValue(name, p)]

\* every formula of the expression dataset under name can be evaluated:
\* it names another dataset of the document that has the values it uses
Evaluable(name) ==
    \A p \in Parts :
        /\ data[name].expr[p].n /= name
        /\ CurrentValue(name, p) /= Unset

C24_TempFileGone ==
    [][last'.op = "export"
       => /\ last'.tmp /= NoName
                => (last'.tmp \notin files /\ last'.tmp \notin files')
          /\ (last'.arg = ".txt" \/ (last'.arg = ".png" /\ last'.val = <<0>>))
                => (/\ last'.exc = "RuntimeError"
                    /\ last'.tmp = NoName
                    /\ files' = files)]_vars

(* ------------------------------------------------------------------ *)
(* The widgets a setting is propagated to                              *)
(* ------------------------------------------------------------------ *)

\* w is d levels under root, by the children lists
RECURSIVE Under(_, _, _, _)
Under(W, root, w, d) ==
    IF d = 0 THEN w = root
    ELSE /\ W[w].parent /= 0
         /\ \E i \in 1..Len(W[W[w].parent].children) :
                W[W[w].parent].children[i] = w
         /\ Under(W, root, W[w].parent, d - 1)

Within(W, root, w) == \E d \in 0..MaxWidgets : Under(W, root, w, d)

\* the widgets that propagateSettings is to reach
Targets(W, root, origin, widgetname, maxlevels) ==
    {w \in Live(W) :
        /\ \E d \in 1..MaxWidgets :
               (maxlevels < 0 \/ d <= maxlevels) /\ Under(W, root, w, d)
        /\ W[w].typename = W[origin].typename
        /\ (widgetname = AnyName \/ W[w].name = widgetname)}

\* a comes before b when the tree is walked depth first, parents before
\* their children
Before(W, a, b) ==
    \/ \E d \in 1..MaxWidgets : Under(W, a, b, d)
    \/ \E c \in Live(W) :
         \E i, j \in 1..Len(W[c].children) :
            /\ i < j
            /\ Within(W, W[c].children[i], a)
            /\ Within(W, W[c].children[j], b)

C26_DocumentBound == \A n \in Present(data) : data[n].document

(* ------------------------------------------------------------------ *)
(* Expression datasets: the end of a read                              *)
(* ------------------------------------------------------------------ *)

\* C27: every read of a part of an expression dataset ends by returning
\* a value or by raising the dataset-expression error, whatever datasets
\* the document holds.
C27_ReadTerminates ==
    last.op = "read" => last.exc \in {"none", "DatasetExpressionException"}

(* ------------------------------------------------------------------ *)
(* The current widget and the tree                                     *)
(* ------------------------------------------------------------------ *)

\* C28: in every state, the current widget of the command interface is a
\* widget of the tree of the document: the root, or some levels under it
\* by the children lists.
C28_CurrentInTree == Within(widgets, basewidget, currentwidget)

(* ------------------------------------------------------------------ *)
(* Renaming a dataset                                                  *)
(* ------------------------------------------------------------------ *)

\* C29: a renameDataset(old, new) of a dataset that is there leaves as
\* many datasets as there were and every dataset under a name other than
\* old under its name; one of a dataset that is not there raises and
\* leaves the mapping, the changeset and the modified flag as they were.
C29_RenameMovesOne ==
    [][last'.op = "renameDataset"
       => IF data[last'.name] /= NoData
          THEN /\ Cardinality(Present(data')) = Cardinality(Present(data))
               /\ \A n \in Present(data) \ {last'.name} : data'[n] = data[n]
          ELSE /\ last'.exc /= "none"
               /\ data' = data
               /\ changeset' = changeset
               /\ modified' = modified]_vars

(* ------------------------------------------------------------------ *)
(* What a save leaves alone                                            *)
(* ------------------------------------------------------------------ *)

\* C30: a saveToFile that returns leaves the datasets of the document,
\* their values and links, the linkage objects and the changeset as they
\* were.
C30_SaveChangesNothing ==
    [][(last'.op = "saveToFile" /\ last'.exc = "none")
       => /\ data' = data
          /\ links' = links
          /\ changeset' = changeset]_vars

====
